---- MODULE Spec2Model ----
(***************************************************************************)
(* The export -> transform -> upload -> audit pipeline of the IC Source    *)
(* upload scripts.  The repository holds four variants of the same script: *)
(*   v1  src/unnamed/part_001, lines 1-277     (streaming, configurable)   *)
(*   v2  src/scripts/export-and-upload-icsource.mjs, lines 1-250           *)
(*       (in-memory, no filtering, no dry run)                             *)
(*   v3  src/scripts/export-and-upload-icsource.mjs, lines 261-476         *)
(*       (streaming, adjustQty80, minimal log row)                         *)
(*   v4  src/unnamed/part_001, lines 291-472   (in-memory, must(), inline) *)
(* One run of one variant is one behaviour.  Every await of the script is  *)
(* one action; the synchronous code between two awaits (row loops, catch   *)
(* and finally blocks) belongs to the action of the await before it.       *)
(*                                                                         *)
(* Strings that the code trims are sequences of one-character strings.     *)
(* A nullable value is a sequence: <<>> is null, <<x>> is x.               *)
(* A raw quantity is [k |-> "num" | "null" | "nan", n |-> Int]; "nan" is a *)
(* non-numeric string.  Ratios are tenths (8 is 0.8): with integer         *)
(* quantities the product is never within floating-point error of a half,  *)
(* so exact arithmetic gives what Math.round gives.                        *)
(***************************************************************************)
EXTENDS Integers, Sequences, FiniteSets, TLC

VARIABLES
    variant,        \* which of the four scripts runs
    pc,             \* position of the run
    source,         \* the excess_parts table: a set of rows with unique ids
    dryRun,         \* DRY_RUN / isDryRun
    pageSize,       \* PAGE_SIZE / pageSize
    ratio,          \* ADJUST_RATIO, in tenths
    ftpCreds,       \* FTP user and password are both set
    cursor,         \* lastId / cursor: <<>> is null
    fetches,        \* number of page queries issued
    delivered,      \* ids handed to the row loop, in order
    rows,           \* v2/v4: rows accumulated in memory before the file is written
    artifact,       \* the CSV file: [state, header, bom, lines]
    totalLines,     \* totalLines / lineCount
    totalQty,       \* totalQty
    distinct,       \* distinct / skuSet / seenSku
    exportStats,    \* what the export returned: <<>> before it returns
    session,        \* the FTP session: "none", "open", "closed"
    sessionsOpened, \* number of successful client.access calls
    uploads,        \* number of uploadFrom calls issued
    remote,         \* the files of the remote directory: a set of [name, size]
    ftpInfo,        \* what the upload step returned: <<>> before it returns
    err,            \* messages of the exceptions thrown so far, in order
    auditLog,       \* rows the log table accepted
    auditAttempts,  \* number of inserts issued
    diag,           \* what the run printed about failed log inserts
    exitCode,       \* process exit code, meaningful when pc = "exited"
    supabaseCfg,    \* Supabase URL and key are both set
    postListing,    \* what the listing after the upload showed: "none" before it
    probe,          \* the quantity rule applied to one input: <<>> in whole runs
    inserted        \* ids of the rows other clients added to the table during the run

vars == <<variant, pc, source, dryRun, pageSize, ratio, ftpCreds, cursor, fetches,
          delivered, rows, artifact, totalLines, totalQty, distinct, exportStats,
          session, sessionsOpened, uploads, remote, ftpInfo, err, auditLog,
          auditAttempts, diag, exitCode, supabaseCfg, postListing, probe, inserted>>

(***************************************************************************)
(* Bounds of the model.                                                    *)
(***************************************************************************)
MaxRecords == 2
MaxPageSize == 2
MaxQty == 12
MaxInserts == 2

Variants == {"v1", "v2", "v3", "v4"}
Streaming == {"v1", "v3"}

Num(n) == [k |-> "num", n |-> n]
QNull == [k |-> "null", n |-> 0]
QNaN == [k |-> "nan", n |-> 0]

\* part_number values of the table: empty, plain, with a leading blank, another key
PartNumbers == {<<>>, <<"A">>, <<" ", "A">>, <<"B">>}
\* quantity values of the table used by whole runs
Quantities == {Num(-5), Num(0), Num(3)}
\* ADJUST_RATIO values (tenths) a v1 run may be configured with
Ratios == {5, 8, 10}
\* ADJUST_RATIO values of whole runs: the default 0.8, and 1, which disables the rule
RunRatios == {8, 10}
\* the remote directory before the run: empty, or holding the file an earlier run
\* left under the fixed name and a file of another name
OldRemoteDirs ==
    { {},
      {[name |-> "verified_inventory.csv", size |-> 7],
       [name |-> "other.csv", size |-> 5]} }

(***************************************************************************)
(* Helpers                                                                 *)
(***************************************************************************)
Min(a, b) == IF a <= b THEN a ELSE b

RECURSIVE TrimStart(_)
TrimStart(s) == IF s # <<>> /\ Head(s) = " " THEN TrimStart(Tail(s)) ELSE s

RECURSIVE TrimEnd(_)
TrimEnd(s) ==
    IF s # <<>> /\ s[Len(s)] = " " THEN TrimEnd(SubSeq(s, 1, Len(s) - 1)) ELSE s

\* String.prototype.trim
Trim(s) == TrimEnd(TrimStart(s))

\* Math.floor in place of Math.round
MathFloor(num, den) == num \div den

\* Math.round of num/den (den > 0): the nearest integer, a half going up
MathRound(num, den) == (2 * num + den) \div (2 * den)

\* toNumber(v, 0): Number(v) when finite, else 0
toNumber(v) == IF v.k = "num" THEN v.n ELSE 0

\* v1: Math.round(toNumber(row.quantity, 0) * ADJUST_RATIO), not clamped
adjQtyV1(q, r) == MathRound(toNumber(q) * r, 10)

\* v3: adjustQty80.  Number(q || 0) is NaN for a non-numeric string; NaN > 0 is false
adjustQty80(q) ==
    IF q.k = "nan" THEN 0
    ELSE LET x == IF q.k = "num" THEN q.n ELSE 0
             v == MathRound(x * 8, 10)
         IN IF v > 0 THEN v ELSE 0

\* Number(r.quantity || 0) of v2 and v4, for the numeric and null quantities of a run
NumberOr0(q) == IF q.k = "num" THEN q.n ELSE 0

RECURSIVE OrderDesc(_)
\* ascending: false in place of ascending: true
OrderDesc(S) ==
    IF S = {} THEN <<>>
    ELSE LET m == CHOOSE r \in S : \A x \in S : r.id >= x.id
         IN <<m>> \o OrderDesc(S \ {m})

RECURSIVE OrderAsc(_)
\* .order('id', { ascending: true })
OrderAsc(S) ==
    IF S = {} THEN <<>>
    ELSE LET m == CHOOSE r \in S : \A x \in S : r.id <= x.id
         IN <<m>> \o OrderAsc(S \ {m})

\* .gte in place of .gt: the last row of a page comes back with the next
FetchPageQueryGte(tbl, cur, limit) ==
    LET hit == {r \in tbl : cur = <<>> \/ r.id >= cur[1]}
        ord == OrderAsc(hit)
    IN SubSeq(ord, 1, Min(limit, Len(ord)))

\* one page query: .gt('id', cursor) when a cursor is given, ordered, limited
FetchPageQuery(tbl, cur, limit) ==
    LET hit == {r \in tbl : cur = <<>> \/ r.id > cur[1]}
        ord == OrderAsc(hit)
    IN SubSeq(ord, 1, Min(limit, Len(ord)))

\* the cursor a variant starts with: null in v1 and v2, 0 in v3 and v4
InitialCursor(v) == IF v \in {"v1", "v2"} THEN <<>> ELSE <<0>>


(***************************************************************************)
(* The transformer and the row loops                                       *)
(***************************************************************************)
\* the accumulator a row loop works on
Acc == [cursor |-> cursor, delivered |-> delivered, rows |-> rows,
        lines |-> artifact.lines, n |-> totalLines, qty |-> totalQty,
        distinct |-> distinct]

\* v1, body of `for (const row of data)`: the cursor moves with every row
RowStepV1(acc, row) ==
    LET mpn    == Trim(row.pn)
        adjQty == adjQtyV1(row.qty, ratio)
        seen   == [acc EXCEPT !.cursor = <<row.id>>,
                              !.delivered = Append(@, row.id)]
    IN IF mpn = <<>> \/ adjQty <= 0 THEN seen
       ELSE [seen EXCEPT !.lines = Append(@, [pn |-> mpn, qty |-> adjQty]),
                         !.n = @ + 1,
                         !.qty = @ + adjQty,
                         !.distinct = @ \cup {mpn}]

\* v3, body of `for (const row of data)`
RowStepV3(acc, row) ==
    LET mpn  == Trim(row.pn)
        adj  == adjustQty80(row.qty)
        seen == [acc EXCEPT !.delivered = Append(@, row.id)]
    IN IF mpn = <<>> THEN seen
       ELSE IF adj <= 0 THEN seen
       ELSE [seen EXCEPT !.lines = Append(@, [pn |-> mpn, qty |-> adj]),
                         !.n = @ + 1,
                         !.qty = @ + adj,
                         !.distinct = @ \cup {mpn}]

\* v2, body of `for (const r of data)`: every row is kept; the statistics read the raw row
RowStepV2(acc, row) ==
    [acc EXCEPT !.delivered = Append(@, row.id),
                !.rows = Append(@, [pn |-> Trim(row.pn), qty |-> NumberOr0(row.qty)]),
                !.distinct = IF row.pn # <<>> THEN @ \cup {row.pn} ELSE @,
                !.qty = @ + NumberOr0(row.qty)]

\* v4, `for (const r of data) rows.push(r)` and the later rows.map: kept as they are
RowStepV4(acc, row) ==
    [acc EXCEPT !.delivered = Append(@, row.id),
                !.rows = Append(@, [pn |-> row.pn,
                                    qty |-> IF row.qty.k = "num" THEN row.qty.n ELSE 0])]

RowStep(acc, row) ==
    CASE variant = "v1" -> RowStepV1(acc, row)
      [] variant = "v2" -> RowStepV2(acc, row)
      [] variant = "v3" -> RowStepV3(acc, row)
      [] OTHER          -> RowStepV4(acc, row)

RECURSIVE RowLoop(_, _)
RowLoop(acc, page) ==
    IF page = <<>> THEN acc ELSE RowLoop(RowStep(acc, Head(page)), Tail(page))

\* the number of rows fetched so far in place of the last row's id
CursorAfterCount(acc, page) == <<Len(acc.delivered)>>

\* the first row's id in place of the last row's
CursorAfterFirst(acc, page) == <<page[1].id>>

\* the cursor after a page: v1 has moved it row by row, the others take the last row's id
CursorAfter(acc, page) ==
    IF variant = "v1" THEN acc.cursor ELSE <<page[Len(page)].id>>

\* v2 and v4 stop on a short page; v1 and v3 only on an empty one
StopsOnShortPage == variant \in {"v2", "v4"}

(***************************************************************************)
(* The artifact                                                            *)
(***************************************************************************)
\* columns of the header row; v3 writes none (header: false)
HeaderOf(v) ==
    CASE v = "v1" -> <<"part_number", "quantity", "vendor">>
      [] v = "v2" -> <<"mpn", "qty", "vendor">>
      [] v = "v3" -> <<>>
      [] OTHER    -> <<"part_number", "quantity", "vendor", "batch_id",
                       "uploaded_by", "created_on_utc">>

\* number of fields of a data line
ColumnsOf(v) == IF v = "v3" THEN 2 ELSE Len(HeaderOf(v))

RECURSIVE Digits(_)
Digits(n) == IF n < 0 THEN 1 + Digits(-n) ELSE IF n < 10 THEN 1 ELSE 1 + Digits(n \div 10)

RECURSIVE SumLen(_)
SumLen(cols) == IF cols = <<>> THEN 0 ELSE Len(Head(cols)) + SumLen(Tail(cols))

RECURSIVE LinesBytes(_, _)
LinesBytes(lines, ncols) ==
    IF lines = <<>> THEN 0
    ELSE Len(Head(lines).pn) + Digits(Head(lines).qty) + (ncols - 1) + 1
         + LinesBytes(Tail(lines), ncols)

\* bytes of the file: the BOM of v4, the header row, the data lines (vendor and the
\* other optional columns are empty)
FileSize(a, ncols) ==
    (IF a.bom THEN 3 ELSE 0)
    + (IF a.header = <<>> THEN 0 ELSE SumLen(a.header) + (Len(a.header) - 1) + 1)
    + LinesBytes(a.lines, ncols)

RECURSIVE SumQty(_)
SumQty(lines) == IF lines = <<>> THEN 0 ELSE Head(lines).qty + SumQty(Tail(lines))

NoArtifact == [state |-> "none", header |-> <<>>, bom |-> FALSE, lines |-> <<>>]


(***************************************************************************)
(* The state before the script starts                                      *)
(***************************************************************************)
\* the id columns of the tables: consecutive ids, and ids with gaps between them
IdSets == {{i * step : i \in 1..n} : n \in 0..MaxRecords, step \in {1, 2}}

\* the tables a run may find: at most MaxRecords rows, ids unique and positive
Tables ==
    UNION {
        { {[id |-> i, pn |-> f[i][1], qty |-> f[i][2]] : i \in ids}
            : f \in [ids -> PartNumbers \X Quantities] }
        : ids \in IdSets }

Init ==
    /\ variant \in Variants
    /\ pc = "start"
    /\ source \in Tables
    /\ dryRun = FALSE
    /\ pageSize = 1
    /\ ratio = 8
    /\ ftpCreds = TRUE
    /\ cursor = <<>>
    /\ fetches = 0
    /\ delivered = <<>>
    /\ rows = <<>>
    /\ artifact = NoArtifact
    /\ totalLines = 0
    /\ totalQty = 0
    /\ distinct = {}
    /\ exportStats = <<>>
    /\ session = "none"
    /\ sessionsOpened = 0
    /\ uploads = 0
    /\ remote \in OldRemoteDirs
    /\ ftpInfo = <<>>
    /\ err = <<>>
    /\ auditLog = <<>>
    /\ auditAttempts = 0
    /\ diag = <<>>
    /\ exitCode = 0
    /\ supabaseCfg = TRUE
    /\ postListing = "none"
    /\ probe = <<>>
    /\ inserted = {}

(***************************************************************************)
(* Leaving the process                                                     *)
(***************************************************************************)
\* process.exit(code), or the end of the script with process.exitCode = code
Exit(code) == pc' = "exited" /\ exitCode' = code

\* the configuration a variant accepts at start-up
\*   v1: Supabase URL and key; FTP user and password unless DRY_RUN
\*   v2: nothing is checked
\*   v3: Supabase URL and key
\*   v4: must() on all four, dry run or not
ConfigAccepted(v, supa, creds, dry) ==
    CASE v = "v1" -> supa /\ (dry \/ creds)
      [] v = "v2" -> TRUE
      [] v = "v3" -> supa
      [] OTHER    -> supa /\ creds

(***************************************************************************)
(* Start: the top level of the module up to the first await of the export  *)
(***************************************************************************)
Start ==
    /\ pc = "start"
    /\ \E supa \in (IF variant = "v2" THEN {TRUE} ELSE BOOLEAN),
          creds \in BOOLEAN,
          dry \in (IF variant = "v2" THEN {FALSE} ELSE BOOLEAN),
          ps \in 1..MaxPageSize,
          rt \in (IF variant = "v1" THEN RunRatios ELSE {8}) :
        /\ dryRun' = dry
        /\ supabaseCfg' = supa
        /\ ftpCreds' = creds
        /\ pageSize' = ps
        /\ ratio' = rt
        /\ IF ConfigAccepted(variant, supa, creds, dry)
           THEN /\ pc' = "export"
                /\ exitCode' = exitCode
                /\ cursor' = InitialCursor(variant)
                /\ artifact' = IF variant \in Streaming
                               THEN [state |-> "open", header |-> HeaderOf(variant),
                                     bom |-> FALSE, lines |-> <<>>]
                               ELSE artifact
           ELSE /\ Exit(1)
                /\ UNCHANGED <<cursor, artifact>>
    /\ UNCHANGED <<variant, source, fetches, delivered, rows, totalLines, totalQty,
                   distinct, exportStats, session, sessionsOpened, uploads, remote,
                   ftpInfo, err, auditLog, auditAttempts, diag, postListing, probe, inserted>>

(***************************************************************************)
(* The paging loop of the export: one query and the row loop over its page *)
(***************************************************************************)
\* where a thrown fetch error lands: the catch of main writes an error row in v1 and
\* v2; v3 and v4 leave the process
FetchError ==
    /\ pc = "export"
    /\ fetches' = fetches + 1
    /\ err' = Append(err, "Supabase fetch error")
    /\ IF variant \in {"v1", "v2"}
       THEN pc' = "errlog" /\ exitCode' = exitCode
       ELSE Exit(1)
    /\ UNCHANGED <<variant, source, dryRun, pageSize, ratio, ftpCreds, cursor,
                   delivered, rows, artifact, totalLines, totalQty, distinct,
                   exportStats, session, sessionsOpened, uploads, remote, ftpInfo,
                   auditLog, auditAttempts, diag, supabaseCfg, postListing, probe, inserted>>

FetchPage ==
    /\ pc = "export"
    /\ fetches' = fetches + 1
    /\ LET data == FetchPageQuery(source, cursor, pageSize)
           acc  == RowLoop(Acc, data)
       IN IF data = <<>>
          THEN /\ pc' = "finalize"
               /\ UNCHANGED <<cursor, delivered, rows, artifact, totalLines,
                              totalQty, distinct>>
          ELSE /\ cursor' = CursorAfter(acc, data)
               /\ delivered' = acc.delivered
               /\ rows' = acc.rows
               /\ artifact' = [artifact EXCEPT !.lines = acc.lines]
               /\ totalLines' = acc.n
               /\ totalQty' = acc.qty
               /\ distinct' = acc.distinct
               /\ pc' = IF StopsOnShortPage /\ Len(data) < pageSize
                        THEN "finalize" ELSE "export"
    /\ UNCHANGED <<variant, source, dryRun, pageSize, ratio, ftpCreds, exportStats,
                   session, sessionsOpened, uploads, remote, ftpInfo, err, auditLog,
                   auditAttempts, diag, exitCode, supabaseCfg, postListing, probe, inserted>>

(***************************************************************************)
(* Finalize: the file is complete and the export returns its statistics    *)
(***************************************************************************)
\* the end of the write not awaited: the export returns while the file is still open
FinalArtifactNotAwaited ==
    IF variant \in Streaming
    THEN artifact
    ELSE [state |-> "open", header |-> HeaderOf(variant), bom |-> (variant = "v4"),
          lines |-> rows]

\* v1/v3: csv.end(), await finish, stat.  v2/v4: stringify all rows, writeFile.
FinalArtifact ==
    IF variant \in Streaming
    THEN [artifact EXCEPT !.state = "closed"]
    ELSE [state |-> "closed", header |-> HeaderOf(variant), bom |-> (variant = "v4"),
          lines |-> rows]

\* the dry-run flag ignored
AfterExportAlwaysUpload == "connect"

\* where the run goes once the export returned
AfterExport ==
    IF dryRun THEN "log" ELSE "connect"

Finalize ==
    /\ pc = "finalize"
    /\ artifact' = FinalArtifact
    /\ totalLines' = IF variant \in Streaming THEN totalLines ELSE Len(rows)
    /\ distinct' = IF variant = "v4" THEN {rows[i].pn : i \in 1..Len(rows)} ELSE distinct
    /\ totalQty' = IF variant = "v4" THEN SumQty(rows) ELSE totalQty
    /\ exportStats' =
         << [lines    |-> totalLines',
             distinct |-> Cardinality(distinct'),
             totalQty |-> totalQty',
             fileSize |-> IF variant \in Streaming
                          THEN <<FileSize(FinalArtifact, ColumnsOf(variant))>>
                          ELSE <<>>] >>
    /\ ftpInfo' = IF variant = "v3" /\ dryRun
                  THEN << [ok |-> TRUE, found |-> FALSE,
                           size |-> FileSize(FinalArtifact, ColumnsOf(variant))] >>
                  ELSE ftpInfo
    /\ pc' = AfterExport
    /\ UNCHANGED <<variant, source, dryRun, pageSize, ratio, ftpCreds, cursor, fetches,
                   delivered, rows, session, sessionsOpened, uploads, remote, err,
                   auditLog, auditAttempts, diag, exitCode, supabaseCfg, postListing,
                   probe, inserted>>


(***************************************************************************)
(* The FTP step                                                            *)
(***************************************************************************)
\* client.close() of a finally block
Closed(sess) == IF sess = "open" THEN "closed" ELSE sess

\* An exception inside the FTP step.
\*   v1: finally closes the client, the catch of main goes on to the error row
\*   v2: nothing closes the client, the catch of main goes on to the error row
\*   v3: caught in uploadViaFtp, which returns { ok: false, size: 0 }; finally closes
\*   v4: finally closes the client, the exception ends the process
FtpThrow(msg) ==
    /\ err' = Append(err, msg)
    /\ session' = IF variant = "v2" THEN session ELSE Closed(session)
    /\ ftpInfo' = IF variant = "v3" THEN << [ok |-> FALSE, size |-> 0] >> ELSE ftpInfo
    /\ CASE variant \in {"v1", "v2"} -> pc' = "errlog" /\ exitCode' = exitCode
         [] variant = "v3"           -> pc' = "log" /\ exitCode' = exitCode
         [] OTHER                    -> Exit(1)

\* client.access(...) and the pwd / ensureDir that follow it
Connect ==
    /\ pc = "connect"
    /\ \E ok \in (IF ftpCreds THEN BOOLEAN ELSE {FALSE}) :
        IF ok
        THEN /\ session' = "open"
             /\ sessionsOpened' = sessionsOpened + 1
             /\ pc' = "prelist"
             /\ UNCHANGED <<err, ftpInfo, exitCode>>
        ELSE /\ FtpThrow("FTP connect failed")
             /\ UNCHANGED sessionsOpened
    /\ UNCHANGED <<variant, source, dryRun, pageSize, ratio, ftpCreds, cursor, fetches,
                   delivered, rows, artifact, totalLines, totalQty, distinct,
                   exportStats, uploads, remote, auditLog, auditAttempts, diag,
                   supabaseCfg, postListing, probe, inserted>>

\* the listing before the upload: v2 and v4 wrap it in try/catch, v1 and v3 do not
PreListGuarded == variant \in {"v2", "v4"}

PreList ==
    /\ pc = "prelist"
    /\ \E ok \in BOOLEAN :
        IF ok
        THEN pc' = "upload" /\ UNCHANGED <<err, session, ftpInfo, exitCode>>
        ELSE IF PreListGuarded
        THEN /\ err' = Append(err, "FTP list failed")
             /\ pc' = "upload"
             /\ UNCHANGED <<session, ftpInfo, exitCode>>
        ELSE FtpThrow("FTP list failed")
    /\ UNCHANGED <<variant, source, dryRun, pageSize, ratio, ftpCreds, cursor, fetches,
                   delivered, rows, artifact, totalLines, totalQty, distinct,
                   exportStats, sessionsOpened, uploads, remote, auditLog,
                   auditAttempts, diag, supabaseCfg, postListing, probe, inserted>>

\* the local path handed over as the remote name, without path.basename
RemoteNameWithDir(v) == "out/verified_inventory.csv"

\* the name the file is uploaded under
\*   v1: path.basename(OUT_FILE); v2: the literal; v3, v4: OUTPUT_FILE, by default
RemoteName(v) == "verified_inventory.csv"

\* the server stores a file under a name: a file of that name is replaced, the
\* others stay
StoreFile(dir, name, size) ==
    {f \in dir : f.name # name} \cup {[name |-> name, size |-> size]}

\* the size a listing shows for a name: <<>> when no entry has that name
SizeListed(dir, name) ==
    IF \E f \in dir : f.name = name
    THEN <<(CHOOSE f \in dir : f.name = name).size>>
    ELSE <<>>

\* client.uploadFrom(local, remoteName): the remote file of that name is replaced
Upload ==
    /\ pc = "upload"
    /\ uploads' = uploads + 1
    /\ \E ok \in BOOLEAN :
        IF ok
        THEN /\ remote' = StoreFile(remote, RemoteName(variant),
                                    FileSize(artifact, ColumnsOf(variant)))
             /\ pc' = "postlist"
             /\ UNCHANGED <<err, session, ftpInfo, exitCode>>
        ELSE /\ FtpThrow("FTP upload failed")
             /\ UNCHANGED remote
    /\ UNCHANGED <<variant, source, dryRun, pageSize, ratio, ftpCreds, cursor, fetches,
                   delivered, rows, artifact, totalLines, totalQty, distinct,
                   exportStats, sessionsOpened, auditLog, auditAttempts, diag,
                   supabaseCfg, postListing, probe, inserted>>

\* what the upload step returns once the listing after the upload is in hand;
\* listing is <<>> when the name is not in it, <<size>> when it is
\*   v1: uploadedSize, or throws when it is null
\*   v2: remoteSize = Number(f.size || 0), 0 when the name is not found
\*   v3: { ok: true, size }, size 0 when the name is not found
\*   v4: the listing is only printed
Verified(v, listing) ==
    CASE v = "v4" -> <<>>
      [] OTHER    -> << [ok |-> TRUE, size |-> IF listing = <<>> THEN 0 ELSE listing[1]] >>

\* the test `if (uploadedSize == null) throw` left out
NeverThrowsWhenMissing == FALSE

\* v1 alone treats a name missing from the listing as an exception
ThrowsWhenMissing == variant = "v1"

PostList ==
    /\ pc = "postlist"
    /\ \E outcome \in {"listed", "hidden", "throw"} :
        /\ postListing' = outcome
        /\ LET listing == IF outcome = "listed"
                          THEN SizeListed(remote, RemoteName(variant))
                          ELSE <<>>
           IN IF outcome = "throw"
              THEN IF variant = "v4"
                   THEN /\ err' = Append(err, "FTP list failed")
                        /\ session' = Closed(session)
                        /\ pc' = "log"
                        /\ UNCHANGED <<ftpInfo, exitCode>>
                   ELSE FtpThrow("FTP list failed")
              ELSE IF listing = <<>> /\ ThrowsWhenMissing
              THEN FtpThrow("Upload appears to be missing on remote.")
              ELSE /\ ftpInfo' = Verified(variant, listing)
                   /\ session' = Closed(session)
                   /\ pc' = "log"
                   /\ UNCHANGED <<err, exitCode>>
    /\ UNCHANGED <<variant, source, dryRun, pageSize, ratio, ftpCreds, cursor, fetches,
                   delivered, rows, artifact, totalLines, totalQty, distinct,
                   exportStats, sessionsOpened, uploads, remote, auditLog,
                   auditAttempts, diag, supabaseCfg, probe, inserted>>

(***************************************************************************)
(* The audit row                                                           *)
(***************************************************************************)
\* the row written after the export and the FTP step returned
\*   v1: writeLog({ ok: true, msg: 'OK', exportStats, ftpInfo })
\*   v2: insertLog with status from remoteSize > 0, file_size: remoteSize
\*   v3: writeLogMinimal, fileSize: up.size || stats.fileSize; no success column
\*   v4: details { dry_run, rows, distinct_skus, ... }; no success column
SuccessRow ==
    LET st == exportStats[1]
    IN CASE variant = "v1" ->
              [dry_run |-> dryRun, line_count |-> <<st.lines>>,
               distinct_skus |-> <<st.distinct>>, total_qty |-> <<st.totalQty>>,
               file_size |-> st.fileSize, success |-> "true", message |-> "OK"]
         [] variant = "v2" ->
              [dry_run |-> FALSE, line_count |-> <<st.lines>>,
               distinct_skus |-> <<st.distinct>>, total_qty |-> <<st.totalQty>>,
               file_size |-> <<ftpInfo[1].size>>,
               success |-> IF ftpInfo[1].size > 0 THEN "true" ELSE "false",
               message |-> IF ftpInfo[1].size > 0 THEN "OK" ELSE "Remote file size 0"]
         [] variant = "v3" ->
              [dry_run |-> dryRun, line_count |-> <<st.lines>>,
               distinct_skus |-> <<st.distinct>>, total_qty |-> <<st.totalQty>>,
               file_size |-> IF ftpInfo[1].size # 0 THEN <<ftpInfo[1].size>>
                             ELSE st.fileSize,
               success |-> "absent", message |-> ""]
         [] OTHER ->
              [dry_run |-> dryRun, line_count |-> <<st.lines>>,
               distinct_skus |-> <<st.distinct>>, total_qty |-> <<>>,
               file_size |-> <<>>, success |-> "absent", message |-> ""]

\* the row written by the catch of main (v1: nulls, v2: zeros)
ErrorRow ==
    LET blank == IF variant = "v1" THEN <<>> ELSE <<0>>
    IN [dry_run |-> dryRun, line_count |-> blank, distinct_skus |-> blank,
        total_qty |-> blank, file_size |-> blank, success |-> "false",
        message |-> err[Len(err)]]

\* the main path's insert.  A rejected insert throws in v1, v2 and v3: the catch of
\* main writes an error row in v1 and v2 and leaves with 1 in v3; v4 only warns.
WriteLog ==
    /\ pc = "log"
    /\ auditAttempts' = auditAttempts + 1
    /\ \E accepted \in BOOLEAN :
        IF accepted
        THEN /\ auditLog' = Append(auditLog, SuccessRow)
             /\ Exit(0)
             /\ UNCHANGED <<err, diag>>
        ELSE /\ auditLog' = auditLog
             /\ diag' = Append(diag, "log insert failed")
             /\ err' = IF variant = "v4" THEN err ELSE Append(err, "log insert failed")
             /\ CASE variant \in {"v1", "v2"} -> pc' = "errlog" /\ exitCode' = exitCode
                  [] variant = "v3"           -> Exit(1)
                  [] OTHER                    -> Exit(0)
    /\ UNCHANGED <<variant, source, dryRun, pageSize, ratio, ftpCreds, cursor, fetches,
                   delivered, rows, artifact, totalLines, totalQty, distinct,
                   exportStats, session, sessionsOpened, uploads, remote, ftpInfo,
                   supabaseCfg, postListing, probe, inserted>>

\* the insert of the catch of main (v1 and v2); its own failure is printed and dropped
WriteErrorLog ==
    /\ pc = "errlog"
    /\ auditAttempts' = auditAttempts + 1
    /\ \E accepted \in BOOLEAN :
        IF accepted
        THEN auditLog' = Append(auditLog, ErrorRow) /\ diag' = diag
        ELSE auditLog' = auditLog /\ diag' = Append(diag, "Failed to write error log")
    /\ Exit(1)
    /\ UNCHANGED <<variant, source, dryRun, pageSize, ratio, ftpCreds, cursor, fetches,
                   delivered, rows, artifact, totalLines, totalQty, distinct,
                   exportStats, session, sessionsOpened, uploads, remote, ftpInfo,
                   err, supabaseCfg, postListing, probe, inserted>>

Next ==
    \/ Start
    \/ FetchPage
    \/ FetchError
    \/ Finalize
    \/ Connect
    \/ PreList
    \/ Upload
    \/ PostList
    \/ WriteLog
    \/ WriteErrorLog

Spec == Init /\ [][Next]_vars


(***************************************************************************)
(* The quantity rule on its own: the rule of v1 and of v3 applied to one   *)
(* raw quantity at a time                                                  *)
(***************************************************************************)
\* raw quantities: integers, a missing value, a non-numeric string
RawQuantities == {Num(n) : n \in (-MaxQty)..MaxQty} \cup {QNull, QNaN}

\* the adjusted quantity the row loop of a variant computes
AdjustedBy(v, q, r) == IF v = "v1" THEN adjQtyV1(q, r) ELSE adjustQty80(q)

InitQty ==
    /\ variant \in Streaming
    /\ pc = "transform"
    /\ source = {}
    /\ dryRun = FALSE
    /\ pageSize = 1
    /\ ratio = 8
    /\ ftpCreds = TRUE
    /\ cursor = <<>>
    /\ fetches = 0
    /\ delivered = <<>>
    /\ rows = <<>>
    /\ artifact = NoArtifact
    /\ totalLines = 0
    /\ totalQty = 0
    /\ distinct = {}
    /\ exportStats = <<>>
    /\ session = "none"
    /\ sessionsOpened = 0
    /\ uploads = 0
    /\ remote = {}
    /\ ftpInfo = <<>>
    /\ err = <<>>
    /\ auditLog = <<>>
    /\ auditAttempts = 0
    /\ diag = <<>>
    /\ exitCode = 0
    /\ supabaseCfg = TRUE
    /\ postListing = "none"
    /\ probe = <<>>
    /\ inserted = {}

AdjustQuantity ==
    /\ pc = "transform"
    /\ \E q \in RawQuantities, r \in (IF variant = "v1" THEN Ratios ELSE {8}) :
        /\ ratio' = r
        /\ probe' = << [q |-> q, adj |-> AdjustedBy(variant, q, r)] >>
    /\ UNCHANGED <<variant, pc, source, dryRun, pageSize, ftpCreds, cursor, fetches,
                   delivered, rows, artifact, totalLines, totalQty, distinct,
                   exportStats, session, sessionsOpened, uploads, remote, ftpInfo, err,
                   auditLog, auditAttempts, diag, exitCode, supabaseCfg, postListing,
                   inserted>>

NextQty == AdjustQuantity

SpecQty == InitQty /\ [][NextQty]_vars

(***************************************************************************)
(* A run while other clients append rows to the table.  The queries of a   *)
(* run are separate requests, so the table may grow between two of them.   *)
(***************************************************************************)
\* tables whose rows all pass the transformer: the paging does not read the contents
PlainTables ==
    { {[id |-> i, pn |-> <<"A">>, qty |-> Num(3)] : i \in ids} : ids \in IdSets }

InitInsert == Init /\ source \in PlainTables

\* the largest id of the table, 0 when it is empty
TopId(tbl) ==
    IF tbl = {} THEN 0 ELSE CHOOSE m \in {r.id : r \in tbl} : \A r \in tbl : r.id <= m

\* another client inserts a row while the export is paging; an identity key gives it
\* an id above every id of the table
InsertRecord ==
    /\ pc = "export"
    /\ Cardinality(inserted) < MaxInserts
    /\ \E gap \in {1, 2} :
        LET id == TopId(source) + gap
        IN /\ source' = source \cup {[id |-> id, pn |-> <<"B">>, qty |-> Num(3)]}
           /\ inserted' = inserted \cup {id}
    /\ UNCHANGED <<variant, pc, dryRun, pageSize, ratio, ftpCreds, cursor, fetches,
                   delivered, rows, artifact, totalLines, totalQty, distinct,
                   exportStats, session, sessionsOpened, uploads, remote, ftpInfo, err,
                   auditLog, auditAttempts, diag, exitCode, supabaseCfg, postListing,
                   probe>>

NextInsert == Next \/ InsertRecord

SpecInsert == InitInsert /\ [][NextInsert]_vars

(***************************************************************************)
(* Properties                                                              *)
(***************************************************************************)
Done == pc = "exited"

Contains(seq, x) == \E i \in 1..Len(seq) : seq[i] = x

\* no insert into the log table was rejected
SinkAccepted == diag = <<>>

\* the numeric columns of an audit row are null or zero
BlankStats(row) ==
    /\ row.line_count \in {<<>>, <<0>>}
    /\ row.distinct_skus \in {<<>>, <<0>>}
    /\ row.total_qty \in {<<>>, <<0>>}
    /\ row.file_size \in {<<>>, <<0>>}

\* the value of a raw quantity: missing and non-numeric count as 0
RawValue(q) == IF q.k = "num" THEN q.n ELSE 0

\* num/den rounded to the nearest integer, a half going away from zero
RoundHalfAway(num, den) ==
    IF num >= 0 THEN (2 * num + den) \div (2 * den)
    ELSE -((2 * (-num) + den) \div (2 * den))

\* max(0, round(q x ratio)), the ratio in tenths
ClaimedAdjusted(q, r) ==
    LET v == RoundHalfAway(RawValue(q) * r, 10) IN IF v > 0 THEN v ELSE 0


C1_ExactlyOneAuditRow ==
    (Done /\ supabaseCfg /\ SinkAccepted) =>
        /\ Len(auditLog) = 1
        /\ exportStats = <<>> =>
              auditLog[1].success = "false" /\ BlankStats(auditLog[1])

\* C2: the export succeeded, the upload call succeeded and the listing after the
\* upload does not show the uploaded name: the run still writes exactly one audit row
\* with success = false and a message, and exits with code 0.
C2_MissingFromListingIsAuditedExitZero ==
    (Done /\ postListing = "hidden" /\ SinkAccepted) =>
        /\ Len(auditLog) = 1
        /\ auditLog[1].success = "false"
        /\ auditLog[1].message # ""
        /\ exitCode = 0

\* C3: a run issues at most one insert into the audit log; a rejected insert is
\* printed and dropped, never followed by a second insert.
C3_AtMostOneInsert == auditAttempts <= 1

\* the ids of a table in ascending order
RECURSIVE AscendingIds(_)
AscendingIds(I) ==
    IF I = {} THEN <<>>
    ELSE LET m == CHOOSE x \in I : \A y \in I : x <= y
         IN <<m>> \o AscendingIds(I \ {m})

IsPrefix(a, b) == Len(a) <= Len(b) /\ a = SubSeq(b, 1, Len(a))

\* the paging loop has ended without a fetch error
PagingEnded == pc = "finalize" \/ exportStats # <<>>

\* C4: for a static table of N rows with unique ids and any page size P >= 1 the
\* paging loop hands every row to the row loop exactly once, in ascending id order:
\* what has been delivered is always an initial part of the ids in ascending order,
\* and all of them once the loop has ended.
C4_PaginationComplete ==
    LET ids == AscendingIds({r.id : r \in source})
    IN /\ IsPrefix(delivered, ids)
       /\ PagingEnded => delivered = ids

\* C4 witness: a table with a gap in its ids has been read to the end in pages of one
\* row, the empty page included
C4_Witness ==
    /\ pc = "finalize"
    /\ pageSize = 1
    /\ fetches = 3
    /\ delivered = <<2, 4>>

\* C5: a page fetch that returns an error aborts the run: no FTP session is opened,
\* nothing is uploaded, exactly one insert of a failure row (success = false, blank
\* statistics) is issued, and the process exits non-zero.
C5_FetchErrorAborts ==
    Contains(err, "Supabase fetch error") =>
        /\ sessionsOpened = 0
        /\ uploads = 0
        /\ Done =>
              /\ auditAttempts = 1
              /\ exitCode # 0
              /\ \A i \in 1..Len(auditLog) :
                    auditLog[i].success = "false" /\ BlankStats(auditLog[i])


\* the row of the table with a given id
RowOf(id) == CHOOSE r \in source : r.id = id

\* a row the transformer must keep: a part number that is not empty after trimming
\* and an adjusted quantity above 0
Acceptable(row) == Trim(row.pn) # <<>> /\ ClaimedAdjusted(row.qty, ratio) > 0

\* the delivered rows the transformer must keep
AcceptedIds == {delivered[i] : i \in {j \in 1..Len(delivered) : Acceptable(RowOf(delivered[j]))}}

RECURSIVE SumAdjusted(_)
SumAdjusted(I) ==
    IF I = {} THEN 0
    ELSE LET i == CHOOSE x \in I : TRUE
         IN ClaimedAdjusted(RowOf(i).qty, ratio) + SumAdjusted(I \ {i})

\* C7: a row whose part number is empty after trimming, or whose adjusted quantity is
\* 0 or less, never becomes a line of the artifact and never counts in lineCount,
\* distinctKeys or totalQuantity.
C7_RejectedNeverWrittenNorCounted ==
    /\ \A i \in 1..Len(artifact.lines) :
          artifact.lines[i].pn # <<>> /\ artifact.lines[i].qty > 0
    /\ exportStats # <<>> =>
          /\ exportStats[1].lines = Cardinality(AcceptedIds)
          /\ exportStats[1].distinct =
                Cardinality({Trim(RowOf(i).pn) : i \in AcceptedIds})
          /\ exportStats[1].totalQty = SumAdjusted(AcceptedIds)

\* the statistics are being kept: from the first write in v1 and v3, from the return
\* of the export in v2 and v4
StatsKept == IF variant \in Streaming THEN artifact.state # "none" ELSE exportStats # <<>>

\* C8: after every row and at the end of the export, lineCount is the number of data
\* lines of the artifact, distinctKeys is the size of the set of written part numbers
\* and at most lineCount, and totalQuantity is the sum of the written quantities.
\* Stated for artifacts in which every written part number is non-empty, so that it
\* does not rest on the rows C7 is about.
C8_StatsMatchArtifact ==
    (StatsKept /\ \A i \in 1..Len(artifact.lines) : artifact.lines[i].pn # <<>>) =>
        /\ totalLines = Len(artifact.lines)
        /\ Cardinality(distinct) =
              Cardinality({artifact.lines[i].pn : i \in 1..Len(artifact.lines)})
        /\ Cardinality(distinct) <= totalLines
        /\ totalQty = SumQty(artifact.lines)

FtpFailed ==
    \/ Contains(err, "FTP connect failed")
    \/ Contains(err, "FTP upload failed")
    \/ Contains(err, "FTP list failed") /\ ~PreListGuarded
    \/ postListing \in {"hidden", "throw"}

\* the state of the transfer: Pending until the export returned and the FTP step
\* ended, then DryRun, TransferFailed or Transferred
TransferState ==
    CASE exportStats = <<>> -> "Pending"
      [] dryRun -> "DryRun"
      [] FtpFailed -> "TransferFailed"
      [] pc \in {"connect", "prelist", "upload", "postlist"} -> "Pending"
      [] OTHER -> "Transferred"

\* C10: every run that leaves Pending (to Transferred, DryRun or TransferFailed)
\* reaches Logged: by the time it ends the audit insert has been issued.
C10_LeftPendingIsLogged ==
    (Done /\ TransferState # "Pending") => auditAttempts >= 1

\* the FTP step ended and the run goes on with a successful transfer
\*   v1: uploadToICSource returned, so the row is written with ok: true
\*   v2: remoteSize > 0, so status is 'OK'
\*   v3: uploadViaFtp returned ok: true
\*   v4: uploadFrom returned; nothing else is looked at
TransferOk ==
    CASE variant = "v1" -> ftpInfo # <<>>
      [] variant = "v2" -> ftpInfo # <<>> /\ ftpInfo[1].size > 0
      [] variant = "v3" -> ftpInfo # <<>> /\ ftpInfo[1].ok
      [] OTHER          -> uploads > 0 /\ ~Contains(err, "FTP upload failed")

\* C11: once the listing after the upload is in hand, the transfer result is a
\* success carrying the size the listing reports exactly when the listing shows the
\* uploaded name; when it does not, the result is a failure, never a success with
\* size 0.
C11_SuccessOnlyWhenListed ==
    (pc \in {"log", "errlog", "exited"} /\ postListing \in {"listed", "hidden"}) =>
        IF postListing = "listed"
        THEN /\ TransferOk
             /\ ftpInfo # <<>>
             /\ <<ftpInfo[1].size>> = SizeListed(remote, RemoteName(variant))
        ELSE ~TransferOk

\* C12: a finished run whose export returned and whose audit insert was issued has
\* exit code 0, whether or not the transfer succeeded and whether or not the insert
\* was accepted; a run that got past its start-up checks ends non-zero only when the
\* export threw before it returned.
C12_ExitZeroOnceExported ==
    Done =>
        /\ (exportStats # <<>> /\ auditAttempts >= 1) => exitCode = 0
        /\ (exitCode # 0 /\ ConfigAccepted(variant, supabaseCfg, ftpCreds, dryRun)) =>
              exportStats = <<>>

\* the ids the run handed to the row loop
DeliveredIds == {delivered[i] : i \in 1..Len(delivered)}

\* the ids the table held when the run started
StartIds == {r.id : r \in source} \ inserted

\* C13: while rows are appended to the table between the page queries (each with an id
\* above every id present), every row is handed to the row loop at most once and in
\* ascending id order, only rows of the table are handed over, and once the paging
\* has ended every row the table held when the run started has been handed over.
C13_CompleteUnderInserts ==
    /\ \A i, j \in 1..Len(delivered) : i < j => delivered[i] < delivered[j]
    /\ DeliveredIds \subseteq {r.id : r \in source}
    /\ PagingEnded => StartIds \subseteq DeliveredIds

\* C13 witness: a row was appended after the first page had been read, and the paging
\* ended with both rows of the start and the appended row handed over
C13_Witness ==
    /\ PagingEnded
    /\ Len(delivered) = 3
    /\ Cardinality(StartIds) = 2
    /\ inserted # {}
    /\ inserted \subseteq DeliveredIds
    /\ fetches >= 3

\* the files of the remote directory that carry the fixed name
FilesOfFixedName == {f \in remote : f.name = "verified_inventory.csv"}

C15_MissingCredentialsAudited ==
    (Done /\ ~dryRun /\ ~ftpCreds /\ supabaseCfg
          /\ ~Contains(err, "Supabase fetch error")) =>
        /\ auditAttempts >= 1
        /\ SinkAccepted =>
              /\ Len(auditLog) = 1
              /\ auditLog[1].success = "false"
              /\ auditLog[1].message # ""

\* an exception was raised while connecting, listing or uploading and was not
\* swallowed where it was raised
FtpException ==
    \/ Contains(err, "FTP connect failed")
    \/ Contains(err, "FTP upload failed")
    \/ Contains(err, "FTP list failed") /\ ~PreListGuarded

\* C16: the export returned and an exception was raised while connecting, listing or
\* uploading: the one audit row of the run has success = false, the error message,
\* and the statistics the export returned (line count, distinct keys, total quantity,
\* size of the artifact), not blanks.
C16_TransferErrorRowKeepsStats ==
    (Done /\ exportStats # <<>> /\ FtpException /\ SinkAccepted) =>
        /\ Len(auditLog) = 1
        /\ auditLog[1].success = "false"
        /\ auditLog[1].message # ""
        /\ auditLog[1].line_count = <<exportStats[1].lines>>
        /\ auditLog[1].distinct_skus = <<exportStats[1].distinct>>
        /\ auditLog[1].total_qty = <<exportStats[1].totalQty>>
        /\ auditLog[1].file_size = <<FileSize(artifact, ColumnsOf(variant))>>

\* C17: a failure of the listing issued before the upload is not fatal: the step in
\* which that listing fails leads to the upload with the session still open, and
\* returns no transfer result.
C17_PreListFailureNotFatal ==
    [][ (pc = "prelist" /\ err' # err) =>
            (pc' = "upload" /\ session' = "open" /\ ftpInfo' = ftpInfo) ]_vars

CeilDiv(n, p) == (n + p - 1) \div p

C19_ShortPageEndsPaging ==
    [][ (pc = "export" /\ fetches' = fetches + 1 /\ err' = err
           /\ Len(delivered') - Len(delivered) < pageSize) =>
            pc' = "finalize" ]_vars

\* the largest element of a non-empty sequence of ids
MaxOf(seq) == CHOOSE m \in {seq[i] : i \in 1..Len(seq)} : \A i \in 1..Len(seq) : seq[i] <= m

\* C20: the cursor of the paging loop never decreases and is never reset: a step of
\* the loop that reads rows sets it to an id strictly above its previous value, the
\* highest id seen so far, every id read in that step being above the one read before
\* it (v1 assigns the cursor row by row); a step that reads no row leaves it alone.
C20_CursorMonotonic ==
    [][ pc = "export" =>
          IF delivered' # delivered
          THEN /\ cursor' # <<>>
               /\ cursor # <<>> => cursor'[1] > cursor[1]
               /\ cursor'[1] = MaxOf(delivered')
               /\ \A i \in (Len(delivered) + 1)..Len(delivered') :
                     /\ cursor # <<>> => delivered'[i] > cursor[1]
                     /\ i > 1 => delivered'[i] > delivered'[i - 1]
          ELSE cursor' = cursor ]_vars

\* C20 witness: the cursor has been moved twice, from the start over id 2 to id 4
C20_Witness ==
    /\ pc = "export"
    /\ variant = "v1"
    /\ pageSize = 1
    /\ delivered = <<2, 4>>
    /\ cursor = <<4>>

\* the FTP step has started: the run is in it, or a session was opened, or an
\* upload was issued
TransferStarted ==
    \/ pc \in {"connect", "prelist", "upload", "postlist"}
    \/ session # "none"
    \/ sessionsOpened > 0
    \/ uploads > 0

\* C21: the FTP step starts only after the artifact has been written completely and
\* closed: whenever a session is being opened or an upload issued, the artifact is
\* closed, the export has returned, and the artifact holds all the lines the export
\* counted; a closed artifact is never written to again.
C21_TransferAfterArtifactClosed ==
    /\ TransferStarted =>
          /\ artifact.state = "closed"
          /\ exportStats # <<>>
          /\ Len(artifact.lines) = exportStats[1].lines
    /\ artifact.state = "closed" => pc \notin {"start", "export", "finalize"}

\* C21 witness: a streaming run is about to upload a closed artifact of two lines
\* over an open session
C21_Witness ==
    /\ pc = "upload"
    /\ variant = "v3"
    /\ session = "open"
    /\ artifact.state = "closed"
    /\ Len(artifact.lines) = 2

\* C22: when no row is accepted (an empty table, or every row rejected) the export
\* returns without error and the artifact is exactly the header row with no data
\* line; lineCount, distinctKeys and totalQuantity are 0.
C22_HeaderOnlyWhenNothingAccepted ==
    (PagingEnded /\ pc # "finalize" /\ AcceptedIds = {}) =>
        /\ exportStats # <<>>
        /\ artifact.state = "closed"
        /\ artifact.header # <<>>
        /\ artifact.lines = <<>>
        /\ exportStats[1].lines = 0
        /\ exportStats[1].distinct = 0
        /\ exportStats[1].totalQty = 0

\* the delivered ids whose rows the transformer must keep, in the order of delivery
AcceptedInOrder == SelectSeq(delivered, LAMBDA i : Acceptable(RowOf(i)))

\* one line per accepted row: the trimmed part number and the adjusted quantity
ExpectedLines ==
    [k \in 1..Len(AcceptedInOrder) |->
        [pn  |-> Trim(RowOf(AcceptedInOrder[k]).pn),
         qty |-> ClaimedAdjusted(RowOf(AcceptedInOrder[k]).qty, ratio)]]

\* C23: the data lines of the artifact are exactly the accepted rows, one line for
\* each, in ascending id order of their rows; accepted rows with the same part number
\* give separate lines and are never merged or summed.
C23_LinesAreAcceptedRowsInOrder ==
    artifact.state # "none" =>
        /\ \A i, j \in 1..Len(delivered) : i < j => delivered[i] < delivered[j]
        /\ artifact.lines = ExpectedLines

\* C24: a row with success = true is written only in a run whose export returned
\* without error and whose transfer was either skipped by the dry run or verified by
\* the uploaded name showing in the listing after the upload; a run that hit a fetch,
\* connect, upload or verification error writes no such row.
C24_SuccessRowOnlyWhenVerified ==
    \A i \in 1..Len(auditLog) :
        auditLog[i].success = "true" =>
            /\ exportStats # <<>>
            /\ ~Contains(err, "Supabase fetch error")
            /\ ~Contains(err, "FTP connect failed")
            /\ ~Contains(err, "FTP upload failed")
            /\ \/ dryRun /\ uploads = 0 /\ postListing = "none"
               \/ ~dryRun /\ uploads = 1 /\ postListing = "listed"

\* C24 witness: a run that uploaded, found the name in the listing and wrote its
\* one row with success = true
C24_Witness ==
    /\ Done
    /\ ~dryRun
    /\ postListing = "listed"
    /\ Len(auditLog) = 1
    /\ auditLog[1].success = "true"
    /\ exitCode = 0

\* C25: every FTP session that was opened is closed before the audit insert is
\* issued, whatever the outcome of the FTP step (success, an exception while
\* connecting, listing or uploading, the uploaded name missing from the listing).
C25_SessionClosedBeforeAudit ==
    (pc \in {"log", "errlog"} \/ auditAttempts >= 1) => session # "open"

====
